---- MODULE Spec2Model ----
(***************************************************************************)
(* Model of the_key (src/src/lib.rs, src/src/formatting.rs): key parts,    *)
(* key part sequences, the composite Key and its accessors, and the        *)
(* Debug rendering (format_struct).                                        *)
(*                                                                         *)
(* Byte strings (&[u8], Vec<u8>) are sequences of naturals below 256.      *)
(* Rust Strings are TLA+ strings; the one non-ASCII character the code     *)
(* writes, U+2514 (the corner of the pretty mode), is written "^" here,    *)
(* a character no name, number or separator of the rendering contains.     *)
(* Option<T> is a record [some, val].  The output sink of a rendering      *)
(* always accepts what is written (write errors are not modelled).         *)
(***************************************************************************)
EXTENDS Integers, Sequences, FiniteSets, TLC

VARIABLES schema, seq, keys, minted, extHist, out, sseq, sarg, skeys, sminted, sout

vars == <<schema, seq, keys, minted, extHist, out, sseq, sarg, skeys, sminted, sout>>
mainVars == <<seq, keys, minted, extHist, out>>
suffixVars == <<sseq, sarg, skeys, sminted, sout>>

(***************************************************************************)
(* Bounds and inputs                                                       *)
(***************************************************************************)
\* the number of extend calls made on the sequence instance
MaxExt == 2
\* the number of Keys alive (borrowing the sequence) at once
MaxKeys == 2

\* define_key_part!(KeyPart1, &[10, 20]) ... as in the tests of lib.rs
KeyPart1 == [key_part_name |-> "KeyPart1", bytes |-> <<10, 20>>]
KeyPart2 == [key_part_name |-> "KeyPart2", bytes |-> <<30, 40>>]
KeyPart3 == [key_part_name |-> "KeyPart3", bytes |-> <<50, 60>>]

\* define_key_seq!(Name, [parts...]): the schemas tried
Schemas == { <<>>, <<KeyPart1, KeyPart2>>, <<KeyPart1, KeyPart2, KeyPart3>> }

\* the arguments of extend(name, bytes) tried
ExtInputs == { <<"Ext1", <<50, 60>>>>, <<"Ext2", <<70, 80>>>>, <<"Ext1", <<>>>> }

\* the terminal keys tried
KeyInputs == { <<>>, <<90, 100>> }

\* the suffixes tried (suffix-bearing variant)
SuffixInputs == { <<>>, <<50, 60>>, <<5>> }

(***************************************************************************)
(* Option, slices, Vec                                                     *)
(***************************************************************************)
None == [some |-> FALSE, val |-> <<>>]
Some(v) == [some |-> TRUE, val |-> v]

\* the outcome of an out-of-range slice index (a panic), never a byte string
Panic == <<-1>>

Max(a, b) == IF a > b THEN a ELSE b

\* &b[n..]
SliceFrom(b, n) ==
  IF n < 0 \/ n > Len(b) THEN Panic ELSE SubSeq(b, n + 1, Len(b))

\* &b[..n]
SliceTo(b, n) ==
  IF n < 0 \/ n > Len(b) THEN Panic ELSE SubSeq(b, 1, n)

\* Vec::with_capacity(n)
Vec_with_capacity(n) == [data |-> <<>>, cap |-> n]

\* Vec::extend_from_slice: the buffer grows (amortised) only when full
extend_from_slice(v, s) ==
  LET need == Len(v.data) + Len(s)
  IN  [data |-> v.data \o s,
       cap  |-> IF need > v.cap THEN Max(Max(2 * v.cap, need), 8) ELSE v.cap]

\* items.iter().for_each(|(_, bytes)| v.extend_from_slice(bytes))
RECURSIVE ExtendEach(_, _, _)
ExtendEach(v, items, i) ==
  IF i > Len(items) THEN v
  ELSE ExtendEach(extend_from_slice(v, items[i][2]), items, i + 1)

(***************************************************************************)
(* KeyPart and KeyPartsSequence                                            *)
(***************************************************************************)
get_name(key_part) == key_part.key_part_name
get_bytes(key_part) == key_part.bytes

\* the running `len += bytes.len()` of new(), after the first i parts
RECURSIVE LenAfter(_, _)
LenAfter(sch, i) ==
  IF i = 0 THEN 0 ELSE LenAfter(sch, i - 1) + Len(get_bytes(sch[i]))

new(sch) ==
  [len        |-> LenAfter(sch, Len(sch)),
   parts      |-> [i \in 1..Len(sch) |-> <<get_name(sch[i]), get_bytes(sch[i])>>],
   extensions |-> None]

get_struct(sch) ==
  [i \in 1..Len(sch) |-> <<get_name(sch[i]), get_bytes(sch[i])>>]

\* self.extensions.as_ref().map(|v| v.as_slice())
get_extensions(self) == self.extensions

\* a plausible slip: the cached len is not updated
extend_len_forgotten(self, key_part_name, bytes) ==
  [self EXCEPT !.extensions =
     IF self.extensions.some
       THEN Some(Append(self.extensions.val, <<key_part_name, bytes>>))
       ELSE Some(<<<<key_part_name, bytes>>>>)]

\* a plausible slip: the list is rebuilt instead of pushed to
extend_replacing(self, key_part_name, bytes) ==
  [self EXCEPT !.len = @ + Len(bytes),
               !.extensions = Some(<<<<key_part_name, bytes>>>>)]

extend(self, key_part_name, bytes) ==
  LET key_bytes == bytes
  IN  [self EXCEPT
         !.len = @ + Len(key_bytes),
         !.extensions =
           IF self.extensions.some
             THEN Some(Append(self.extensions.val, <<key_part_name, key_bytes>>))
             ELSE Some(<<<<key_part_name, key_bytes>>>>)]

Key_new(bytes, key_len, extensions) ==
  [bytes |-> bytes, key_len |-> key_len, extensions |-> extensions]

\* a plausible slip: the terminal key is written before the extensions
create_key_misordered(self, key) ==
  LET r0 == Vec_with_capacity(self.len + Len(key))
      r1 == ExtendEach(r0, self.parts, 1)
      r2 == extend_from_slice(r1, key)
      r3 == IF self.extensions.some
              THEN ExtendEach(r2, self.extensions.val, 1) ELSE r2
  IN  Key_new(r3, Len(key), get_extensions(self))

create_key(self, key) ==
  LET r0 == Vec_with_capacity(self.len + Len(key))
      r1 == ExtendEach(r0, self.parts, 1)
      r2 == IF self.extensions.some
              THEN ExtendEach(r1, self.extensions.val, 1) ELSE r1
      r3 == extend_from_slice(r2, key)
  IN  Key_new(r3, Len(key), get_extensions(self))

(***************************************************************************)
(* Key                                                                     *)
(***************************************************************************)
\* a plausible slip: the slice is taken from the front
get_key_from_front(self) == SliceFrom(self.bytes.data, self.key_len)

get_key(self) == SliceFrom(self.bytes.data, Len(self.bytes.data) - self.key_len)

get_prefix(self) == SliceTo(self.bytes.data, Len(self.bytes.data) - self.key_len)

Key_to_vec(self) == self.bytes.data

\* a plausible slip: the sequence's own to_vec copies the schema only
Seq_to_vec_schema_only(self) ==
  Key_to_vec(create_key([self EXCEPT !.extensions = None], <<>>))

Seq_to_vec(self) == Key_to_vec(create_key(self, <<>>))

(***************************************************************************)
(* formatting.rs                                                           *)
(***************************************************************************)
Digit(d) ==
  CASE d = 0 -> "0" [] d = 1 -> "1" [] d = 2 -> "2" [] d = 3 -> "3"
    [] d = 4 -> "4" [] d = 5 -> "5" [] d = 6 -> "6" [] d = 7 -> "7"
    [] d = 8 -> "8" [] d = 9 -> "9"

\* {:?} of a u8: its decimal digits
RECURSIVE DebugU8(_)
DebugU8(n) == IF n < 10 THEN Digit(n) ELSE DebugU8(n \div 10) \o Digit(n % 10)

\* strs.join(sep)
RECURSIVE Join(_, _, _)
Join(strs, sep, i) ==
  IF i > Len(strs) THEN ""
  ELSE IF i = Len(strs) THEN strs[i]
  ELSE strs[i] \o sep \o Join(strs, sep, i + 1)

\* {:?} of a &[u8]: "[10, 20]"
DebugBytes(b) ==
  "[" \o Join([i \in 1..Len(b) |-> DebugU8(b[i])], ", ", 1) \o "]"

\* " ".repeat(n)
RECURSIVE Repeat(_, _)
Repeat(s, n) == IF n = 0 THEN "" ELSE s \o Repeat(s, n - 1)

\* U+2514, see the head of the module
angle_symbol == "^ "

\* the `prefix_len += bytes.len()` of the map over the parts
RECURSIVE PartsLen(_, _)
PartsLen(parts, i) ==
  IF i = 0 THEN 0 ELSE PartsLen(parts, i - 1) + Len(parts[i][2])

\* format!("{}{:?}", name, bytes) for every part
PartsStrings(parts) ==
  [i \in 1..Len(parts) |-> parts[i][1] \o DebugBytes(parts[i][2])]

\* a plausible slip: the padding grows by one per item
RECURSIVE WriteAlternateStep1(_, _, _)
WriteAlternateStep1(parts, k, i) ==
  IF k > Len(parts) THEN ""
  ELSE LET new_line_symbol == IF i = 0 THEN "" ELSE "\n"
           angle == IF i = 0 THEN "" ELSE angle_symbol
           padding == Repeat(" ", i)
       IN  new_line_symbol \o padding \o angle \o parts[k]
             \o WriteAlternateStep1(parts, k + 1, i + 1)

\* the loop of the alternate mode: k is the item, i the loop's counter
RECURSIVE WriteAlternate(_, _, _)
WriteAlternate(parts, k, i) ==
  IF k > Len(parts) THEN ""
  ELSE LET new_line_symbol == IF i = 0 THEN "" ELSE "\n"
           angle == IF i = 0 THEN "" ELSE angle_symbol
           padding == Repeat(" ", i)
       IN  new_line_symbol \o padding \o angle \o parts[k]
             \o WriteAlternate(parts, k + 1, i + 2)

\* a plausible slip: a separator is written after every item
WriteCompactTrailing(parts) ==
  Join([i \in 1..Len(parts) |-> parts[i] \o " -> "], "", 1)

WriteCompact(parts) == Join(parts, " -> ", 1)

Write(parts, alternate) ==
  IF alternate THEN WriteAlternate(parts, 1, 0) ELSE WriteCompact(parts)

\* what a rendering leaves: whether it returned (no panic), the text written,
\* and the locals prefix_len and key.0[prefix_len..] of format_struct
Rendered(ok, text, prefix_len, shown) ==
  [ok |-> ok, text |-> text, prefix_len |-> prefix_len, shown |-> shown]

\* parts (+ "Key=" item when a key is given) written out
Finish(parts, prefix_len, key, alternate) ==
  IF key.some
    THEN LET shown == SliceFrom(key.val[1], prefix_len)
         IN  IF shown = Panic
               THEN Rendered(FALSE, "", prefix_len, Panic)
               ELSE Rendered(TRUE,
                             Write(Append(parts, "Key=" \o DebugBytes(shown)),
                                   alternate),
                             prefix_len, shown)
    ELSE Rendered(TRUE, Write(parts, alternate), prefix_len, <<>>)

\* format_struct as src/src/formatting.rs has it: parts, one suffix, key
format_struct(parts, suffix, key, alternate) ==
  LET strs0 == PartsStrings(parts)
      len0  == PartsLen(parts, Len(parts))
      len1  == IF suffix.some THEN len0 + Len(suffix.val) ELSE len0
      strs1 == IF suffix.some
                 THEN Append(strs0, "Suffix=" \o DebugBytes(suffix.val))
                 ELSE strs0
  IN  Finish(strs1, len1, key, alternate)

\* format_struct as lib.rs calls it: parts, the extension items, key.
\* Every extension is counted into prefix_len and rendered as Name[bytes].
format_struct_ext(parts, extensions, key, alternate) ==
  LET strs0 == PartsStrings(parts)
      len0  == PartsLen(parts, Len(parts))
      exts  == IF extensions.some THEN extensions.val ELSE <<>>
      len1  == len0 + PartsLen(exts, Len(exts))
      strs1 == strs0 \o PartsStrings(exts)
  IN  Finish(strs1, len1, key, alternate)

\* KeyPartsSequence::fmt_debug, reached from impl Debug for the sequence
fmt_debug(self, parts, extensions, alternate) ==
  format_struct_ext(parts, extensions, None, alternate)

Seq_fmt(self, alternate) ==
  fmt_debug(self, self.parts, get_extensions(self), alternate)

\* a plausible slip: the Key forgets to hand its extensions to the formatter
Key_fmt_no_extensions(sch, self, alternate) ==
  format_struct_ext(get_struct(sch), None,
                    Some(<<self.bytes.data, Len(self.bytes.data)>>), alternate)

\* impl Debug for Key
Key_fmt(sch, self, alternate) ==
  format_struct_ext(get_struct(sch), self.extensions,
                    Some(<<self.bytes.data, Len(self.bytes.data)>>), alternate)

(***************************************************************************)
(* The suffix-bearing variant of the sequence and of the Key (the variant  *)
(* src/src/formatting.rs belongs to): one designated suffix, no extension  *)
(***************************************************************************)
S_new(sch) ==
  [len |-> LenAfter(sch, Len(sch)), parts |-> get_struct(sch), suffix |-> None]

with_suffix(sch, bytes) ==
  [len    |-> LenAfter(sch, Len(sch)) + Len(bytes),
   parts  |-> get_struct(sch),
   suffix |-> Some(bytes)]

S_Key_new(bytes, key_len, suffix_len) ==
  [bytes |-> bytes, key_len |-> key_len, suffix_len |-> suffix_len]

\* a slip the suffix variant could make: suffix_len is left at zero
S_create_key_no_suffix_len(self, key) ==
  LET r0 == Vec_with_capacity(self.len + Len(key))
      r1 == ExtendEach(r0, self.parts, 1)
      r2 == IF self.suffix.some THEN extend_from_slice(r1, self.suffix.val) ELSE r1
      r3 == extend_from_slice(r2, key)
  IN  S_Key_new(r3, Len(key), 0)

S_create_key(self, key) ==
  LET r0 == Vec_with_capacity(self.len + Len(key))
      r1 == ExtendEach(r0, self.parts, 1)
      r2 == IF self.suffix.some THEN extend_from_slice(r1, self.suffix.val) ELSE r1
      r3 == extend_from_slice(r2, key)
  IN  S_Key_new(r3, Len(key), IF self.suffix.some THEN Len(self.suffix.val) ELSE 0)

\* bytes[from .. to] with the bounds checked as Rust checks them
Slice(b, from, to) ==
  IF from < 0 \/ from > to \/ to > Len(b) THEN Panic ELSE SubSeq(b, from + 1, to)

\* an empty slice is reported as absent
NonEmpty(b) == IF b = <<>> THEN None ELSE Some(b)

S_get_prefix(self) ==
  LET len == Len(self.bytes.data)
  IN  Slice(self.bytes.data, 0, len - self.suffix_len - self.key_len)

S_get_suffix(self) ==
  LET len == Len(self.bytes.data)
  IN  NonEmpty(Slice(self.bytes.data, len - self.suffix_len - self.key_len,
                     len - self.key_len))

S_get_key(self) ==
  LET len == Len(self.bytes.data)
  IN  NonEmpty(Slice(self.bytes.data, len - self.key_len, len))

S_Key_to_vec(self) == self.bytes.data

S_Seq_fmt(self, alternate) ==
  format_struct(self.parts, self.suffix, None, alternate)

S_Key_fmt(sch, self, alternate) ==
  format_struct(get_struct(sch), S_get_suffix(self),
                Some(<<self.bytes.data, Len(self.bytes.data)>>), alternate)

(***************************************************************************)
(* State                                                                   *)
(*   schema   the parts of the define_key_seq! type                        *)
(*   seq      the sequence instance [parts, extensions, len]               *)
(*   keys     the Keys alive, each borrowing seq                           *)
(*   minted   for each Key alive, the terminal key it was made from        *)
(*   extHist  the arguments of the extend calls made so far, in order      *)
(*   out      what the last observing operation returned                   *)
(*   sseq, sarg, skeys, sminted, sout: the same for the suffix variant;    *)
(*            sarg is the argument with_suffix was given                   *)
(***************************************************************************)
NoOut ==
  [op |-> "none", alt |-> FALSE, bytes |-> <<>>, res |-> Rendered(TRUE, "", 0, <<>>),
   K |-> <<>>, hist |-> <<>>]

Observed(op, alt, bytes, res, K, hist) ==
  [op |-> op, alt |-> alt, bytes |-> bytes, res |-> res, K |-> K, hist |-> hist]

RemoveAt(s, i) == SubSeq(s, 1, i - 1) \o SubSeq(s, i + 1, Len(s))

SuffixIdle ==
  /\ sseq = S_new(schema)
  /\ sarg = <<>>
  /\ skeys = <<>>
  /\ sminted = <<>>
  /\ sout = NoOut

MainIdle ==
  /\ seq = new(schema)
  /\ keys = <<>>
  /\ minted = <<>>
  /\ extHist = <<>>
  /\ out = NoOut

Init ==
  /\ schema \in Schemas
  /\ MainIdle
  /\ SuffixIdle

\* extend takes self by value: no Key may still borrow the sequence
Extend(key_part_name, bytes) ==
  /\ keys = <<>>
  /\ Len(extHist) < MaxExt
  /\ seq' = extend(seq, key_part_name, bytes)
  /\ extHist' = Append(extHist, <<key_part_name, bytes>>)
  /\ UNCHANGED <<schema, keys, minted, out, suffixVars>>

\* a plausible slip: create_key caches the terminal key in the sequence
CreateKeyCaching(key) ==
  /\ Len(keys) < MaxKeys
  /\ keys' = Append(keys, create_key(seq, key))
  /\ minted' = Append(minted, key)
  /\ seq' = extend(seq, "Key", key)
  /\ UNCHANGED <<schema, extHist, out, suffixVars>>

\* create_key borrows self immutably
CreateKey(key) ==
  /\ Len(keys) < MaxKeys
  /\ keys' = Append(keys, create_key(seq, key))
  /\ minted' = Append(minted, key)
  /\ UNCHANGED <<schema, seq, extHist, out, suffixVars>>

\* Key::to_vec consumes the Key
KeyToVec(i) ==
  /\ i \in 1..Len(keys)
  /\ out' = Observed("to_vec", FALSE, Key_to_vec(keys[i]), NoOut.res,
                     minted[i], extHist)
  /\ keys' = RemoveAt(keys, i)
  /\ minted' = RemoveAt(minted, i)
  /\ UNCHANGED <<schema, seq, extHist, suffixVars>>

GetKey(i) ==
  /\ i \in 1..Len(keys)
  /\ out' = Observed("get_key", FALSE, get_key(keys[i]), NoOut.res,
                     minted[i], extHist)
  /\ UNCHANGED <<schema, seq, keys, minted, extHist, suffixVars>>

GetPrefix(i) ==
  /\ i \in 1..Len(keys)
  /\ out' = Observed("get_prefix", FALSE, get_prefix(keys[i]), NoOut.res,
                     minted[i], extHist)
  /\ UNCHANGED <<schema, seq, keys, minted, extHist, suffixVars>>

SeqToVec ==
  /\ out' = Observed("seq_to_vec", FALSE, Seq_to_vec(seq), NoOut.res, <<>>, extHist)
  /\ UNCHANGED <<schema, seq, keys, minted, extHist, suffixVars>>

SeqDebug(alternate) ==
  /\ out' = Observed("fmt_seq", alternate, <<>>, Seq_fmt(seq, alternate),
                     <<>>, extHist)
  /\ UNCHANGED <<schema, seq, keys, minted, extHist, suffixVars>>

KeyDebug(i, alternate) ==
  /\ i \in 1..Len(keys)
  /\ out' = Observed("fmt_key", alternate, <<>>, Key_fmt(schema, keys[i], alternate),
                     minted[i], extHist)
  /\ UNCHANGED <<schema, seq, keys, minted, extHist, suffixVars>>

Next ==
  \/ \E e \in ExtInputs : Extend(e[1], e[2])
  \/ \E k \in KeyInputs : CreateKey(k)
  \/ \E i \in 1..MaxKeys : KeyToVec(i)
  \/ \E i \in 1..MaxKeys : GetKey(i)
  \/ \E i \in 1..MaxKeys : GetPrefix(i)
  \/ SeqToVec
  \/ \E a \in BOOLEAN : SeqDebug(a)
  \/ \E i \in 1..MaxKeys, a \in BOOLEAN : KeyDebug(i, a)

Spec == Init /\ [][Next]_vars

(***************************************************************************)
(* The suffix variant's operations                                         *)
(***************************************************************************)
SuffixInit ==
  /\ schema \in Schemas
  /\ MainIdle
  /\ sarg \in SuffixInputs
  /\ sseq = with_suffix(schema, sarg)
  /\ skeys = <<>>
  /\ sminted = <<>>
  /\ sout = NoOut

SCreateKey(key) ==
  /\ Len(skeys) < MaxKeys
  /\ skeys' = Append(skeys, S_create_key(sseq, key))
  /\ sminted' = Append(sminted, key)
  /\ UNCHANGED <<schema, mainVars, sseq, sarg, sout>>

SKeyToVec(i) ==
  /\ i \in 1..Len(skeys)
  /\ sout' = Observed("to_vec", FALSE, S_Key_to_vec(skeys[i]), NoOut.res,
                      sminted[i], <<>>)
  /\ skeys' = RemoveAt(skeys, i)
  /\ sminted' = RemoveAt(sminted, i)
  /\ UNCHANGED <<schema, mainVars, sseq, sarg>>

SSeqDebug(alternate) ==
  /\ sout' = Observed("fmt_seq", alternate, <<>>, S_Seq_fmt(sseq, alternate),
                      <<>>, <<>>)
  /\ UNCHANGED <<schema, mainVars, sseq, sarg, skeys, sminted>>

SKeyDebug(i, alternate) ==
  /\ i \in 1..Len(skeys)
  /\ sout' = Observed("fmt_key", alternate, <<>>,
                      S_Key_fmt(schema, skeys[i], alternate), sminted[i], <<>>)
  /\ UNCHANGED <<schema, mainVars, sseq, sarg, skeys, sminted>>

SuffixNext ==
  \/ \E k \in KeyInputs : SCreateKey(k)
  \/ \E i \in 1..MaxKeys : SKeyToVec(i)
  \/ \E a \in BOOLEAN : SSeqDebug(a)
  \/ \E i \in 1..MaxKeys, a \in BOOLEAN : SKeyDebug(i, a)

SuffixSpec == SuffixInit /\ [][SuffixNext]_vars

(***************************************************************************)
(* What the operations are expected to produce, stated from the calls made *)
(***************************************************************************)
RECURSIVE Flatten(_)
Flatten(ss) == IF ss = <<>> THEN <<>> ELSE Head(ss) \o Flatten(Tail(ss))

\* the bytes of the schema parts, in declared order
SchemaBytes == Flatten([i \in 1..Len(schema) |-> schema[i].bytes])

\* the bytes of the extend calls h, in the order the calls were made
HistBytes(h) == Flatten([i \in 1..Len(h) |-> h[i][2]])

ExpectedBuffer(h, K) == SchemaBytes \o HistBytes(h) \o K

\* the items a rendering lists: schema parts, extensions, then Key= (Keys only)
ExpectedItems(h, K, withKey) ==
  [i \in 1..Len(schema) |-> schema[i].key_part_name \o DebugBytes(schema[i].bytes)]
    \o [i \in 1..Len(h) |-> h[i][1] \o DebugBytes(h[i][2])]
    \o (IF withKey THEN <<"Key=" \o DebugBytes(K)>> ELSE <<>>)

\* the first n items, each but the first preceded by " -> "
RECURSIVE Chain(_, _)
Chain(items, n) ==
  IF n = 0 THEN ""
  ELSE IF n = 1 THEN items[1]
  ELSE Chain(items, n - 1) \o " -> " \o items[n]

Blank == "                                        "

\* the first n items: the item at position p >= 1 on its own line after
\* 2 * p spaces and the corner
RECURSIVE Staircase(_, _)
Staircase(items, n) ==
  IF n = 0 THEN ""
  ELSE IF n = 1 THEN items[1]
  ELSE Staircase(items, n - 1)
         \o "\n" \o SubSeq(Blank, 1, 2 * (n - 1)) \o "^ " \o items[n]

IsRendering(o) == o.op \in {"fmt_seq", "fmt_key"}

(***************************************************************************)
(* Claims                                                                  *)
(***************************************************************************)

\* C1: after new() and any number of extend calls, create_key(K).to_vec() is
\* the schema bytes in declared order, then the extension bytes in call
\* order, then K, and nothing else.
C1_KeyBufferIsConcatenation ==
  /\ \A i \in 1..Len(keys) :
       Key_to_vec(keys[i]) = ExpectedBuffer(extHist, minted[i])
  /\ out.op = "to_vec" => out.bytes = ExpectedBuffer(out.hist, out.K)

C1_Witness ==
  /\ out.op = "to_vec"
  /\ Len(schema) = 2
  /\ Len(out.hist) = 2
  /\ out.bytes = <<10, 20, 30, 40, 50, 60, 70, 80, 90, 100>>

\* C2: for every Key of create_key(K): key_len <= bytes.len(), get_key() is K,
\* get_prefix() is the schema bytes followed by the extension bytes, and
\* get_prefix() followed by get_key() is the whole buffer.
C2_AccessorsSplitTheBuffer ==
  /\ \A i \in 1..Len(keys) :
       /\ keys[i].key_len <= Len(keys[i].bytes.data)
       /\ get_key(keys[i]) = minted[i]
       /\ get_prefix(keys[i]) = ExpectedBuffer(extHist, <<>>)
       /\ get_prefix(keys[i]) \o get_key(keys[i]) = keys[i].bytes.data
  /\ out.op = "get_key" => out.bytes = out.K
  /\ out.op = "get_prefix" => out.bytes = ExpectedBuffer(out.hist, <<>>)

C2_Witness ==
  /\ out.op = "get_key"
  /\ out.bytes = <<90, 100>>
  /\ Len(out.hist) = 2
  /\ \E i \in 1..Len(keys) : get_prefix(keys[i]) = <<10, 20, 30, 40, 50, 60, 70, 80>>

\* C3: the cached len is the sum of the schema part lengths plus the lengths
\* of the extension items held; the buffer create_key(K) builds has length
\* len + K.len(), the capacity it was pre-sized to.
C3_LenIsCachedTotal ==
  /\ seq.len = Len(Flatten([i \in 1..Len(seq.parts) |-> seq.parts[i][2]]))
                 + Len(Flatten([i \in 1..Len(seq.extensions.val) |->
                                  seq.extensions.val[i][2]]))
  /\ \A i \in 1..Len(keys) :
       /\ Len(keys[i].bytes.data) = seq.len + Len(minted[i])
       /\ keys[i].bytes.cap = Len(keys[i].bytes.data)

C3_Witness ==
  /\ Len(extHist) = 2
  /\ Len(schema) = 2
  /\ seq.len = 8
  /\ \E i \in 1..Len(keys) : keys[i].bytes.cap = 10

\* C4: in the suffix-bearing variant, with_suffix(X) then create_key(K) gives
\* the buffer concat(S) + X + K, get_prefix() = concat(S), get_suffix() = X
\* (absent iff X is empty), get_key() = K (absent iff K is empty).
C4_SuffixVariantLayout ==
  /\ \A i \in 1..Len(skeys) :
       /\ S_Key_to_vec(skeys[i]) = SchemaBytes \o sarg \o sminted[i]
       /\ S_get_prefix(skeys[i]) = SchemaBytes
       /\ S_get_suffix(skeys[i]) = (IF sarg = <<>> THEN None ELSE Some(sarg))
       /\ S_get_key(skeys[i]) =
            (IF sminted[i] = <<>> THEN None ELSE Some(sminted[i]))
  /\ sout.op = "to_vec" => sout.bytes = SchemaBytes \o sarg \o sout.K

C4_Witness ==
  /\ sout.op = "to_vec"
  /\ sout.bytes = <<10, 20, 30, 40, 50, 60, 90, 100>>
  /\ \E i \in 1..Len(skeys) :
       /\ S_get_suffix(skeys[i]) = Some(<<50, 60>>)
       /\ S_get_key(skeys[i]) = None

C8_ExtendIsAdditive ==
  [][Len(extHist') = Len(extHist) + 1 =>
       LET item == extHist'[Len(extHist')]
           before == IF seq.extensions.some THEN seq.extensions.val ELSE <<>>
       IN  /\ seq'.extensions = Some(Append(before, item))
           /\ seq'.parts = seq.parts
           /\ seq'.len = seq.len + Len(item[2])]_vars

C8_Witness ==
  /\ seq.extensions.some
  /\ Len(seq.extensions.val) = 2
  /\ seq.extensions.val[1] # seq.extensions.val[2]
  /\ Len(seq.parts) = 2

\* C9: the sequence's to_vec() (create_key of the empty key) never fails; its
\* buffer is the schema bytes followed by the extension bytes; a Key made
\* from the empty key has get_prefix() equal to the whole buffer and an
\* empty key.
C9_EmptyTerminalKey ==
  /\ out.op = "seq_to_vec" =>
       /\ out.bytes # Panic
       /\ out.bytes = ExpectedBuffer(out.hist, <<>>)
  /\ \A i \in 1..Len(keys) :
       minted[i] = <<>> =>
         /\ keys[i].key_len = 0
         /\ get_key(keys[i]) = <<>>
         /\ get_prefix(keys[i]) = keys[i].bytes.data
         /\ Seq_to_vec(seq) = keys[i].bytes.data

C9_Witness ==
  /\ out.op = "seq_to_vec"
  /\ out.bytes = <<10, 20, 30, 40, 50, 60, 70, 80>>
  /\ \E i \in 1..Len(keys) : minted[i] = <<>> /\ keys[i].bytes.data = out.bytes

\* C10: create_key leaves the sequence (parts, extensions, len) as it was, so
\* every Key alive has the buffer it would have had as the only Key minted,
\* two Keys made from the same K have the same bytes, and reading a Key with
\* get_key or get_prefix changes neither the Keys nor the sequence.
C10_CreateKeyLeavesSequence ==
  [][/\ Len(keys') = Len(keys) + 1 =>
          /\ seq' = seq
          /\ \A i \in 1..Len(keys') : keys'[i] = create_key(seq', minted'[i])
          /\ \A i, j \in 1..Len(keys') :
               minted'[i] = minted'[j] => keys'[i].bytes.data = keys'[j].bytes.data
     /\ out'.op \in {"get_key", "get_prefix"} /\ out' # out =>
          /\ keys' = keys
          /\ seq' = seq]_vars

C10_Witness ==
  /\ Len(keys) = 2
  /\ Len(extHist) = 2
  /\ minted[1] = <<90, 100>>
  /\ minted[2] = <<>>
  /\ keys[1].bytes.data = <<10, 20, 30, 40, 50, 60, 70, 80, 90, 100>>

====
